---- MODULE Spec2Model ----
(***************************************************************************)
(* Model of the Personaplex voice pipeline hooks:                          *)
(*   usePersonaplexSocket.ts  - the Transport (WebSocket state machine)    *)
(*   usePersonaplexAudio.ts   - playback scheduler, frame decoding,        *)
(*                              capture, voice activity, downsample        *)
(*   Personaplex (page)       - connect/disconnect handlers, the effect    *)
(*                              that starts and stops capture              *)
(*                                                                         *)
(* The WebSocket objects are the environment.  Their behaviour follows the *)
(* WHATWG WebSockets standard: readyState goes CONNECTING -> OPEN ->       *)
(* CLOSING -> CLOSED; the task that establishes a connection sets OPEN and *)
(* fires "open"; the task that closes it sets CLOSED, fires "error" first  *)
(* when the connection was failed, and then fires "close" (one task, so    *)
(* no other handler runs between the two listeners); close() on a          *)
(* CONNECTING socket fails the connection; "message" is fired only while   *)
(* readyState is OPEN.                                                     *)
(***************************************************************************)
EXTENDS Integers, Sequences, FiniteSets, TLC

\* ------------------------------------------------------------------ bounds
MaxChannels == 4      \* WebSocket objects created by connect()
MaxDisconnects == 2   \* disconnect() calls in a row
MaxBuffers == 3       \* buffers queued by playAudioChunk()
MaxTime == 7          \* clock ticks
MaxContexts == 2      \* AudioContext objects created
MaxStarts == 2        \* startCapture() calls
MaxSessions == 2      \* connect() calls of the page
MaxClock == 10        \* clock ticks while the silence timeout is observed
MaxLength == 9        \* input.length of the short inputs of downsample

Channels == 1..MaxChannels
Payloads == {"f32", "u8"}   \* send(data: ArrayBuffer | Uint8Array)
NoSocket == 0
NoMessage == "null"
ConnectionFailed == "Connection failed"

VARIABLES
  hook,        \* usePersonaplexSocket: socketRef.current, status, errorMessage;
               \* the number of onConnect / onDisconnect / onMessage calls made
               \* by the operation handled last
  readyState,  \* readyState of every WebSocket created so far ("NONE" = not created)
  failing,     \* sockets whose closing task will fire "error" before "close"
  wire,        \* what the last send() did: its return value, the socket it wrote
               \* to (NoSocket = none) and the data written
  lastOp,      \* history: the operation or event handled last
  sinceDisconnect, \* history: disconnect() returned and connect() was not invoked since
  run,         \* history: length of the current run of consecutive disconnect()
               \* calls, the onDisconnect notifications made during the run and
               \* whether the run began in state Connected
  caused,      \* history: per socket, the onDisconnect notifications caused so far
               \* by the disconnect() call that closed it (0 = not closed by one)
  refs,        \* usePersonaplexAudio: audioContextRef, sourceRef, processorRef,
               \* streamRef, playbackContextRef (0 = null), micPermission,
               \* isUserSpeaking
  player,      \* playbackQueueRef, isPlayingRef, nextPlayTimeRef, isAiSpeaking,
               \* the buffer sources scheduled and not yet ended; history: ids
               \* of the buffers started since the last stopCapture, in order,
               \* and the end time of the source started last
  ctx,         \* every AudioContext: state and currentTime
  now,         \* wall clock, in ticks of one sample period (0.05 s at 20 Hz)
  devices,     \* live MediaStreams, connected ScriptProcessors, pending
               \* getUserMedia requests
  completed,   \* history: ids of the buffers whose "ended" event was handled
               \* since the last stopCapture, in order
  audioLog,    \* history: number of queued buffers and of startCapture calls
               \* so far; whether stopCapture was called; how many of the
               \* buffers of Scenario were queued at time 0, with no other
               \* buffer queued and every "ended" event fired exactly at its
               \* buffer's end time (-1 = the run is not the scenario)
  capture,     \* lastSpeakTimeRef (ms since the epoch); the clock time of the
               \* last run of the checkSilence interval; per startCapture call
               \* the isConnected value its closure holds; the isConnected
               \* value the capture effect of the page handled last;
               \* history: the values that the operation handled last
               \* passed to onUserSpeakingChange, the value a startCapture
               \* call returned in it ("none" = no call returned), the
               \* processor whose block it processed (0 = none), the block and
               \* the length of the frame handed to sendAudio (-1 = none); the
               \* startCapture calls that were denied, whether stopCapture
               \* returned and startCapture was not called since, and the
               \* byteLength of the frame the operation handled last
               \* received (-1 = none)
  resampler    \* a call of downsample: input.length, sourceRate, targetRate
               \* and, once it returned, the output

audioVars == <<refs, player, ctx, now, devices, completed, audioLog, capture,
               resampler>>

transportVars == <<hook, readyState, failing, wire, lastOp, sinceDisconnect,
                   run, caused>>

vars == <<hook, readyState, failing, wire, lastOp, sinceDisconnect, run, caused,
          refs, player, ctx, now, devices, completed, audioLog, capture,
          resampler>>

\* ------------------------------------------------- usePersonaplexSocket.ts

\* useRef(null), useState("disconnected"), useState(null)
HookInit ==
  [socketRef |-> NoSocket, status |-> "disconnected", errorMessage |-> NoMessage,
   onConnect |-> 0, onDisconnect |-> 0, onMessage |-> 0]

\* the hook when a new operation or event begins: no callback made yet
Fresh(h) == [h EXCEPT !.onConnect = 0, !.onDisconnect = 0, !.onMessage = 0]

NoWrite == [result |-> FALSE, socket |-> NoSocket, data |-> ""]

\* ws.addEventListener("open", ...)
openListener(h) ==
  [h EXCEPT !.status = "connected", !.onConnect = @ + 1]

closeListenerKeepsRef(h) ==
  [h EXCEPT !.status = "disconnected", !.onDisconnect = @ + 1]

\* ws.addEventListener("close", ...)
closeListener(h) ==
  [h EXCEPT !.socketRef = NoSocket, !.status = "disconnected",
            !.onDisconnect = @ + 1]

\* ws.addEventListener("error", ...)
errorListener(h) ==
  [h EXCEPT !.status = "error", !.errorMessage = ConnectionFailed]

\* ws.addEventListener("message", ...): event.data is an ArrayBuffer
\* (binaryType = "arraybuffer") and onMessage is registered
messageListener(h) ==
  [h EXCEPT !.onMessage = @ + 1]

\* connect(): socketRef.current?.readyState === WebSocket.OPEN
socketIsOpen(h, rs) ==
  h.socketRef # NoSocket /\ rs[h.socketRef] = "OPEN"

sendAllowedNoReadyCheck(h, rs) ==
  h.socketRef # NoSocket

\* send(): !(!socket || socket.readyState !== WebSocket.OPEN)
sendAllowed(h, rs) ==
  h.socketRef # NoSocket /\ rs[h.socketRef] = "OPEN"

\* const isConnected = status === "connected"
isConnected == hook.status = "connected"

\* the WebSocket objects created so far are 1..channels
channels == Cardinality({ws \in Channels : readyState[ws] # "NONE"})

\* the capture history when an operation begins that is not one of capture
Quiet(c) ==
  [c EXCEPT !.calls = <<>>, !.sent = -1, !.block = 0, !.input = <<>>,
            !.returned = "none", !.frame = -1]

\* bookkeeping of every step but disconnect(): it ends the run of disconnect()
\* calls and leaves the audio hook alone
Touch(op) ==
  /\ lastOp' = op
  /\ run' = [len |-> 0, notified |-> 0, connected |-> FALSE]
  /\ capture' = Quiet(capture)
  /\ UNCHANGED <<refs, player, ctx, now, devices, completed, audioLog, resampler>>

\* bookkeeping of a step of the capture side of the audio hook: it makes no
\* callback of the transport and writes nothing
Capture(op) ==
  /\ lastOp' = op
  /\ hook' = Fresh(hook)
  /\ wire' = NoWrite
  /\ UNCHANGED <<readyState, failing, sinceDisconnect, run, caused>>

\* connect(): returns at once when socketRef.current is OPEN; otherwise a new
\* WebSocket replaces socketRef.current (the previous one is not closed).
connect ==
  /\ \/ /\ socketIsOpen(hook, readyState)
        /\ hook' = Fresh(hook)
        /\ UNCHANGED readyState
     \/ /\ ~socketIsOpen(hook, readyState)
        /\ channels < MaxChannels
        /\ LET ws == channels + 1 IN
           /\ hook' = [Fresh(hook) EXCEPT !.status = "connecting",
                                          !.errorMessage = NoMessage,
                                          !.socketRef = ws]
           /\ readyState' = [readyState EXCEPT ![ws] = "CONNECTING"]
  /\ sinceDisconnect' = FALSE
  /\ wire' = NoWrite
  /\ UNCHANGED <<failing, caused>>
  /\ Touch("connect")

\* disconnect(): what the call does to the transport
disconnectCall ==
  /\ run.len < MaxDisconnects
  /\ LET ws == hook.socketRef IN
     IF ws # NoSocket
       THEN \* WebSocket.close(): no effect on CLOSING/CLOSED, fails a
            \* CONNECTING socket, starts the closing handshake of an OPEN one
            /\ readyState' = [readyState EXCEPT ![ws] =
                 IF @ \in {"CONNECTING", "OPEN"} THEN "CLOSING" ELSE @]
            /\ failing' = IF readyState[ws] = "CONNECTING"
                            THEN failing \cup {ws} ELSE failing
            /\ caused' = [caused EXCEPT ![ws] = 1]
       ELSE UNCHANGED <<readyState, failing, caused>>
  /\ hook' = [Fresh(hook) EXCEPT !.socketRef = NoSocket,
                                 !.status = "disconnected",
                                 !.errorMessage = NoMessage,
                                 !.onDisconnect = @ + 1]
  /\ sinceDisconnect' = TRUE
  /\ wire' = NoWrite
  /\ lastOp' = "disconnect"
  /\ run' = [len |-> run.len + 1,
             notified |-> run.notified + hook'.onDisconnect,
             connected |-> IF run.len = 0 THEN hook.status = "connected"
                                          ELSE run.connected]

\* disconnect()
disconnect ==
  /\ disconnectCall
  /\ UNCHANGED audioVars

\* send(data): what the call does to the transport
sendCall(data) ==
  /\ wire' = IF sendAllowed(hook, readyState)
               THEN [result |-> TRUE, socket |-> hook.socketRef, data |-> data]
               ELSE NoWrite
  /\ hook' = Fresh(hook)
  /\ lastOp' = "send"
  /\ run' = [len |-> 0, notified |-> 0, connected |-> FALSE]
  /\ UNCHANGED <<readyState, failing, sinceDisconnect, caused>>

\* send(data)
send(data) ==
  /\ sendCall(data)
  /\ UNCHANGED audioVars

\* --------------------------------------------- WebSocket events (environment)

\* the connection of ws is established: OPEN, "open" fires
channelOpen(ws) ==
  /\ readyState[ws] = "CONNECTING"
  /\ readyState' = [readyState EXCEPT ![ws] = "OPEN"]
  /\ hook' = openListener(Fresh(hook))
  /\ wire' = NoWrite
  /\ UNCHANGED <<failing, sinceDisconnect, caused>>
  /\ Touch("open")

\* the connection of ws fails (while opening, or an I/O failure while OPEN):
\* CLOSED, "error" fires, then "close"
channelFail(ws) ==
  /\ readyState[ws] \in {"CONNECTING", "OPEN"}
  /\ readyState' = [readyState EXCEPT ![ws] = "CLOSED"]
  /\ hook' = closeListener(errorListener(Fresh(hook)))
  /\ wire' = NoWrite
  /\ UNCHANGED <<failing, sinceDisconnect, caused>>
  /\ Touch(IF readyState[ws] = "CONNECTING" THEN "openFailed" ELSE "ioFailed")

\* the peer closes the OPEN connection of ws: CLOSED, "close" fires
peerClose(ws) ==
  /\ readyState[ws] = "OPEN"
  /\ readyState' = [readyState EXCEPT ![ws] = "CLOSED"]
  /\ hook' = closeListener(Fresh(hook))
  /\ wire' = NoWrite
  /\ UNCHANGED <<failing, sinceDisconnect, caused>>
  /\ Touch("peerClose")

\* the close started by WebSocket.close() completes: CLOSED, "error" fires
\* when close() failed a CONNECTING socket, then "close"
channelClosed(ws) ==
  /\ readyState[ws] = "CLOSING"
  /\ readyState' = [readyState EXCEPT ![ws] = "CLOSED"]
  /\ hook' = IF ws \in failing THEN closeListener(errorListener(Fresh(hook)))
                               ELSE closeListener(Fresh(hook))
  /\ failing' = failing \ {ws}
  /\ caused' = [caused EXCEPT ![ws] = @ + hook'.onDisconnect]
  /\ wire' = NoWrite
  /\ UNCHANGED sinceDisconnect
  /\ Touch("closed")

\* a binary frame arrives on ws: "message" fires
channelMessage(ws) ==
  /\ readyState[ws] = "OPEN"
  /\ hook' = messageListener(Fresh(hook))
  /\ wire' = NoWrite
  /\ UNCHANGED <<readyState, failing, sinceDisconnect, caused>>
  /\ Touch("message")

TransportInit ==
  /\ hook = HookInit
  /\ readyState = [ws \in Channels |-> "NONE"]
  /\ failing = {}
  /\ wire = NoWrite
  /\ lastOp = "init"
  /\ sinceDisconnect = FALSE
  /\ run = [len |-> 0, notified |-> 0, connected |-> FALSE]
  /\ caused = [ws \in Channels |-> 0]

TransportNext ==
  \/ connect
  \/ disconnect
  \/ \E data \in Payloads : send(data)
  \/ \E ws \in Channels : channelOpen(ws)
  \/ \E ws \in Channels : channelFail(ws)
  \/ \E ws \in Channels : peerClose(ws)
  \/ \E ws \in Channels : channelClosed(ws)
  \/ \E ws \in Channels : channelMessage(ws)

\* ------------------------------------------------- usePersonaplexAudio.ts

\* ---- the Number type: IEEE 754 binary64, round to nearest, ties to even.
\* A natural number of any size is the sequence of its digits in base Base,
\* least significant first, without leading zeros; a positive Number is
\* [m, e] = m * 2^e with m such a natural number of at most Precision binary
\* digits (one more when rounding carried), zero is [<<>>, 0].  Rates and
\* lengths are far from the subnormal and the overflow range.
Precision == 53
LimbBits == 15
Base == 32768

RECURSIVE Pow2(_)
Pow2(k) == IF k = 0 THEN 1 ELSE 2 * Pow2(k - 1)

RECURSIVE Digits(_)
Digits(n) == IF n = 0 THEN <<>> ELSE <<n % Base>> \o Digits(n \div Base)

RECURSIVE IntOf(_)
IntOf(x) == IF x = <<>> THEN 0 ELSE Head(x) + Base * IntOf(Tail(x))

RECURSIVE Trim(_)
Trim(x) ==
  IF x # <<>> /\ x[Len(x)] = 0 THEN Trim(SubSeq(x, 1, Len(x) - 1)) ELSE x

DigitAt(x, i) == IF i <= Len(x) THEN x[i] ELSE 0

RECURSIVE LessFrom(_, _, _)
LessFrom(x, y, i) ==
  IF i = 0 THEN FALSE
  ELSE IF x[i] # y[i] THEN x[i] < y[i]
  ELSE LessFrom(x, y, i - 1)

\* x < y
Less(x, y) ==
  IF Len(x) # Len(y) THEN Len(x) < Len(y) ELSE LessFrom(x, y, Len(x))

RECURSIVE MinusFrom(_, _, _, _)
MinusFrom(x, y, i, borrow) ==
  IF i > Len(x) THEN <<>>
  ELSE LET d == x[i] - DigitAt(y, i) - borrow
       IN <<d % Base>> \o MinusFrom(x, y, i + 1, IF d < 0 THEN 1 ELSE 0)

\* x - y, for x >= y
Minus(x, y) == Trim(MinusFrom(x, y, 1, 0))

RECURSIVE TimesFrom(_, _, _, _)
TimesFrom(x, k, i, carry) ==
  IF i > Len(x) THEN Digits(carry)
  ELSE LET v == x[i] * k + carry
       IN <<v % Base>> \o TimesFrom(x, k, i + 1, v \div Base)

\* x * k + c, for natural numbers k < Base and c < Base
Times(x, k, c) == Trim(TimesFrom(x, k, 1, c))

\* x + 1
Succ(x) == IF x = <<>> THEN <<1>> ELSE Times(x, 1, 1)

RECURSIVE IntBits(_)
\* the number of binary digits of the integer n
IntBits(n) == IF n = 0 THEN 0 ELSE 1 + IntBits(n \div 2)

\* the number of binary digits of x
BitLength(x) ==
  IF x = <<>> THEN 0 ELSE LimbBits * (Len(x) - 1) + IntBits(x[Len(x)])

\* the binary digit of x of weight 2^j
BitOf(x, j) == (DigitAt(x, j \div LimbBits + 1) \div Pow2(j % LimbBits)) % 2

\* x * 2^k
ShiftLeft(x, k) ==
  IF x = <<>> THEN <<>>
  ELSE [i \in 1..(k \div LimbBits) |-> 0] \o Times(x, Pow2(k % LimbBits), 0)

\* x \div 2^k
ShiftRight(x, k) ==
  LET whole == k \div LimbBits
      part == k % LimbBits
  IN Trim([i \in 1..(Len(x) - whole) |->
             x[i + whole] \div Pow2(part)
               + (DigitAt(x, i + whole + 1) % Pow2(part)) * Pow2(LimbBits - part)])

\* x % 2^k # 0
LowBits(x, k) ==
  \/ \E i \in 1..(k \div LimbBits) : DigitAt(x, i) # 0
  \/ DigitAt(x, k \div LimbBits + 1) % Pow2(k % LimbBits) # 0

RECURSIVE Bisect(_, _, _, _)
\* the largest t in lo..hi with d * t <= n, given that d * lo <= n
Bisect(n, d, lo, hi) ==
  IF lo = hi THEN lo
  ELSE LET mid == (lo + hi + 1) \div 2
       IN IF Less(n, Times(d, mid, 0)) THEN Bisect(n, d, lo, mid - 1)
                                       ELSE Bisect(n, d, mid, hi)

RECURSIVE DivFrom(_, _, _, _)
\* long division of the digits i..1 of n by d, with rem < d carried in from
\* the digits above: the digits of the quotient and the remainder
DivFrom(n, d, i, rem) ==
  IF i = 0 THEN [q |-> <<>>, r |-> rem]
  ELSE LET r1 == Trim(<<n[i]>> \o rem)
           t == Bisect(r1, d, 0, Base - 1)
           rest == DivFrom(n, d, i - 1, Minus(r1, Times(d, t, 0)))
       IN IF t = 0 THEN LET same == DivFrom(n, d, i - 1, r1)
                        IN [q |-> same.q \o <<0>>, r |-> same.r]
                   ELSE [q |-> rest.q \o <<t>>, r |-> rest.r]

Min(a, b) == IF a <= b THEN a ELSE b

\* quotient and remainder of n by d, for d # 0: the leading digits of n, one
\* fewer than d has, are less than d and start as the remainder
DivMod(n, d) ==
  IF Len(n) < Len(d) THEN [q |-> <<>>, r |-> n]
  ELSE LET low == Len(n) - Len(d) + 1
           res == DivFrom(n, d, low, SubSeq(n, low + 1, Len(n)))
       IN [q |-> Trim(res.q), r |-> res.r]

\* the Number nearest to (x + less than one) * 2^e, where sticky tells
\* whether the part below x is non-zero
Round(x, sticky, e) ==
  IF BitLength(x) <= Precision THEN [m |-> x, e |-> e]
  ELSE LET s == BitLength(x) - Precision
           kept == ShiftRight(x, s)
           half == BitOf(x, s - 1) = 1
           below == sticky \/ LowBits(x, s - 1)
           up == half /\ (below \/ BitOf(kept, 0) = 1)
       IN [m |-> IF up THEN Succ(kept) ELSE kept, e |-> e + s]

FromInt(n) == [m |-> Digits(n), e |-> 0]

\* x / y, for y # 0: the quotient of the mantissas is computed to two binary
\* digits more than Precision and rounded
Quotient(x, y) ==
  IF x.m = <<>> THEN [m |-> <<>>, e |-> 0]
  ELSE LET k == Precision + 2 + BitLength(y.m) - BitLength(x.m)
           d == DivMod(ShiftLeft(x.m, k), y.m)
       IN Round(d.q, d.r # <<>>, x.e - y.e - k)

\* x * k, for a natural number k < Base
Product(x, k) ==
  IF x.m = <<>> \/ k = 0 THEN [m |-> <<>>, e |-> 0]
  ELSE Round(Times(x.m, k, 0), FALSE, x.e)

\* Math.floor(x), for x >= 0
Floor(x) ==
  IF x.e >= 0 THEN IntOf(x.m) * Pow2(x.e) ELSE IntOf(ShiftRight(x.m, -x.e))

\* downsample: const ratio = sourceRate / targetRate
ratio(sourceRate, targetRate) ==
  Quotient(FromInt(sourceRate), FromInt(targetRate))

\* downsample: Math.floor(input.length / ratio)
outputLength(length, sourceRate, targetRate) ==
  Floor(Quotient(FromInt(length), ratio(sourceRate, targetRate)))

\* downsample: Math.floor(i * ratio)
srcIndexFloor(i, sourceRate, targetRate) ==
  Floor(Product(ratio(sourceRate, targetRate), i))

\* downsample: Math.min(srcIndexFloor + 1, input.length - 1)
srcIndexCeil(i, length, sourceRate, targetRate) ==
  Min(srcIndexFloor(i, sourceRate, targetRate) + 1, length - 1)

\* downsample(input, sourceRate, targetRate) for an input of the given
\* length: output.length and the indexes of input read for the output
\* samples; the sample values are left out
downsample(length, sourceRate, targetRate) ==
  [length |-> outputLength(length, sourceRate, targetRate),
   reads |-> UNION {{srcIndexFloor(i, sourceRate, targetRate),
                     srcIndexCeil(i, length, sourceRate, targetRate)} :
                       i \in 0..(outputLength(length, sourceRate, targetRate) - 1)}]

Contexts == 1..MaxContexts
ByteLengths == {2, 3, 8, 16}   \* int16 x1, unrecognized, float32 x2, float32 x4
NoRef == 0

\* three buffers of 0.1 s, 0.2 s and 0.05 s, in ticks of 0.05 s
Scenario == <<2, 4, 1>>

Max(a, b) == IF a >= b THEN a ELSE b

\* ctx.currentTime: starts at 0, advances with the clock while the context
\* runs and stops when the context is closed
currentTime(c) == ctx[c].currentTime

\* the AudioContext objects created so far are 1..created
created == Cardinality({c \in Contexts : ctx[c].state # "none"})

\* new AudioContext()
newContext(cs, c) ==
  [cs EXCEPT ![c] = [state |-> "running", currentTime |-> 0]]

\* AudioContext.close()
closeContext(cs, c) ==
  IF c # NoRef /\ cs[c].state = "running"
    THEN [cs EXCEPT ![c].state = "closed"]
    ELSE cs

\* The clock of a closed context is read only by the "ended" handlers of the
\* sources scheduled on it; once none is left the context is unreachable and
\* its clock is reset, so that states differing only in it coincide.
release(cs, scheduled) ==
  [c \in Contexts |->
     IF cs[c].state = "closed" /\ \A source \in scheduled : source.ctx # c
       THEN [cs[c] EXCEPT !.currentTime = 0] ELSE cs[c]]

\* source.start(startTime) of a new AudioBufferSourceNode on context c
schedule(p, buffer, c, startTime) ==
  LET source == [id |-> buffer.id, ctx |-> c,
                 start |-> startTime, duration |-> buffer.duration]
  IN [p EXCEPT !.scheduled = @ \cup {source},
               !.started = Append(@, buffer.id),
               !.lastEnd = startTime + buffer.duration]

playNextInQueueLifo(p, c, t) ==
  IF p.playbackQueue = <<>>
    THEN [p EXCEPT !.isPlaying = FALSE, !.isAiSpeaking = FALSE]
    ELSE LET n == Len(p.playbackQueue)
             buffer == p.playbackQueue[n]
             startTime == Max(t, p.nextPlayTime)
         IN [schedule(p, buffer, c, startTime) EXCEPT
                      !.playbackQueue = SubSeq(@, 1, n - 1),
                      !.nextPlayTime = startTime + buffer.duration,
                      !.isPlaying = TRUE,
                      !.isAiSpeaking = TRUE]

\* playNextInQueue(ctx), called at ctx.currentTime = t
playNextInQueue(p, c, t) ==
  IF p.playbackQueue = <<>>
    THEN [p EXCEPT !.isPlaying = FALSE, !.isAiSpeaking = FALSE]
    ELSE LET buffer == Head(p.playbackQueue)
             startTime == Max(t, p.nextPlayTime)
         IN [schedule(p, buffer, c, startTime) EXCEPT
                      !.playbackQueue = Tail(@),
                      !.nextPlayTime = startTime + buffer.duration,
                      !.isPlaying = TRUE,
                      !.isAiSpeaking = TRUE]

decodedLengthFloatOnly(byteLength) == byteLength \div 4

\* playAudioChunk: number of samples decoded from a frame of byteLength bytes
\* (0 = "Unknown audio format, skipping chunk")
decodedLength(byteLength) ==
  IF byteLength % 4 = 0 THEN byteLength \div 4
  ELSE IF byteLength % 2 = 0 THEN byteLength \div 2
  ELSE 0

recognized(byteLength) == byteLength % 4 = 0 \/ byteLength % 2 = 0

startsPlaybackAlways(p) == TRUE

\* playAudioChunk: if (!isPlayingRef.current)
startsPlayback(p) == ~p.isPlaying

\* playAudioChunk(data, sampleRate) with data.byteLength = byteLength: what
\* the call does to the audio state; one sample lasts one tick
playAudioChunkCall(byteLength) ==
  /\ audioLog.queued < MaxBuffers
  /\ LET have == IF refs.audioContextRef # NoRef THEN refs.audioContextRef
                 ELSE refs.playbackContextRef
         c == IF have # NoRef THEN have ELSE created + 1
     IN
     /\ c \in Contexts
     /\ ctx' = IF have = NoRef THEN newContext(ctx, c) ELSE ctx
     /\ refs' = IF have = NoRef THEN [refs EXCEPT !.playbackContextRef = c]
                                ELSE refs
     /\ IF recognized(byteLength)
          THEN LET buffer == [id |-> audioLog.queued + 1,
                              duration |-> decodedLength(byteLength)]
                   pushed == [player EXCEPT !.playbackQueue = Append(@, buffer)]
                   t == IF have = NoRef THEN 0 ELSE currentTime(c)
               IN /\ player' = IF startsPlayback(pushed)
                                  THEN playNextInQueue(
                                         [pushed EXCEPT !.isAiSpeaking = TRUE], c, t)
                                  ELSE pushed
                  /\ audioLog' = [audioLog EXCEPT
                        !.queued = @ + 1,
                        !.scenario =
                           IF /\ @ = audioLog.queued
                              /\ @ < Len(Scenario)
                              /\ now = 0
                              /\ buffer.duration = Scenario[@ + 1]
                             THEN @ + 1 ELSE -1]
          ELSE UNCHANGED <<player, audioLog>>
  /\ UNCHANGED <<now, devices, completed, resampler>>

\* playAudioChunk(data, sampleRate) with data.byteLength = byteLength
playAudioChunk(byteLength) ==
  /\ playAudioChunkCall(byteLength)
  /\ capture' = Quiet(capture)
  /\ UNCHANGED transportVars

\* source.onended of a scheduled source: fires once the buffer has played to
\* its end; for a source whose context was closed first, whether and when it
\* fires is left to the browser.  The handler runs playNextInQueue with the
\* context the source was created on, also when that context is closed.
sourceEnded(source) ==
  /\ source \in player.scheduled
  /\ \/ ctx[source.ctx].state = "closed"
     \/ currentTime(source.ctx) >= source.start + source.duration
  /\ player' = playNextInQueue(
                  [player EXCEPT !.scheduled = @ \ {source}],
                  source.ctx, currentTime(source.ctx))
  /\ completed' = Append(completed, source.id)
  /\ audioLog' = [audioLog EXCEPT !.scenario =
                    IF currentTime(source.ctx) = source.start + source.duration
                      THEN @ ELSE -1]
  /\ ctx' = release(ctx, player'.scheduled)
  /\ capture' = Quiet(capture)
  /\ UNCHANGED <<refs, now, devices, resampler>>
  /\ UNCHANGED transportVars

\* ---- capture

CAPTURE_SAMPLE_RATE == 16000
CAPTURE_BUFFER_SIZE == 2048
sampleRate == 48000          \* new AudioContext({ sampleRate: 48000 })
volumeThreshold == 1         \* 0.01: samples are in hundredths of full scale
silenceTimeoutMs == 300
checkIntervalMs == 100       \* setInterval(..., 100)
TickMs == 50                 \* one tick of now, in ms
MountTime == 1000            \* Date.now() when the page is mounted (now = 0):
                             \* later than silenceTimeoutMs after the epoch

\* Date.now()
DateNow == MountTime + now * TickMs

\* e.inputBuffer.getChannelData(0): CAPTURE_BUFFER_SIZE samples, written as
\* runs of equal samples; rms = 0, 0.01, 0.01, 0.02 * sqrt(1/2), 0.5
Inputs ==
  { <<[value |-> 0, count |-> CAPTURE_BUFFER_SIZE]>>,
    <<[value |-> 1, count |-> CAPTURE_BUFFER_SIZE]>>,
    <<[value |-> 2, count |-> CAPTURE_BUFFER_SIZE \div 4],
      [value |-> 0, count |-> 3 * (CAPTURE_BUFFER_SIZE \div 4)]>>,
    <<[value |-> -2, count |-> CAPTURE_BUFFER_SIZE \div 2],
      [value |-> 0, count |-> CAPTURE_BUFFER_SIZE \div 2]>>,
    <<[value |-> 50, count |-> CAPTURE_BUFFER_SIZE]>> }

\* the blocks of a session: one at the threshold and one above it
SessionInputs == {input \in Inputs : Len(input) = 1 /\ input[1].value # 0}

RECURSIVE inputLength(_)
\* input.length
inputLength(input) ==
  IF input = <<>> THEN 0 ELSE Head(input).count + inputLength(Tail(input))

RECURSIVE sumOfSquares(_)
\* input.reduce((sum, s) => sum + s * s, 0)
sumOfSquares(input) ==
  IF input = <<>> THEN 0
  ELSE Head(input).count * Head(input).value * Head(input).value
         + sumOfSquares(Tail(input))

\* rms > volumeThreshold, with rms = sqrt(sum / input.length): both sides
\* are squared
loud(input) ==
  sumOfSquares(input) > volumeThreshold * volumeThreshold * inputLength(input)

\* downsample(input, ctx.sampleRate, CAPTURE_SAMPLE_RATE).length for the
\* input of a processor created with bufferSize CAPTURE_BUFFER_SIZE
frameLength == outputLength(CAPTURE_BUFFER_SIZE, sampleRate, CAPTURE_SAMPLE_RATE)

expiredAtTimeout(elapsed) == elapsed >= silenceTimeoutMs

\* checkSilence: Date.now() - lastSpeakTimeRef.current > silenceTimeoutMs
expired(elapsed) == elapsed > silenceTimeoutMs

\* the interval callback is due: a multiple of checkIntervalMs after the
\* mount, and it has not run at this clock time
due == (now * TickMs) % checkIntervalMs = 0 /\ capture.lastCheck < now

\* startCapture(): up to "await navigator.mediaDevices.getUserMedia"; the
\* callback closes over the isConnected of the render that created it.
\* r is the isConnected value the capture effect has handled when it returns.
startCaptureCall(r) ==
  /\ audioLog.starts < MaxStarts
  /\ audioLog' = [audioLog EXCEPT !.starts = @ + 1]
  /\ devices' = [devices EXCEPT !.pending = @ + 1]
  /\ capture' = [Quiet(capture) EXCEPT !.closure = Append(@, isConnected),
                                       !.rendered = r,
                                       !.sinceStop = FALSE]
  /\ UNCHANGED <<refs, player, ctx, now, completed, resampler>>

startCapture ==
  /\ startCaptureCall(capture.rendered)
  /\ Capture("start")

\* startCapture(): getUserMedia resolved with a stream; the try block runs to
\* its end and the call returns true
captureGranted ==
  /\ devices.pending > 0
  /\ LET c == created + 1
         k == audioLog.starts - devices.pending + 1
     IN
     /\ c \in Contexts
     /\ ctx' = newContext(ctx, c)
     /\ refs' = [refs EXCEPT !.micPermission = "granted",
                             !.streamRef = k,
                             !.audioContextRef = c,
                             !.sourceRef = k,
                             !.processorRef = k]
     /\ devices' = [devices EXCEPT !.pending = @ - 1,
                                   !.streams = @ \cup {k},
                                   !.processors = @ \cup {k}]
  /\ capture' = [Quiet(capture) EXCEPT !.returned = "true"]
  /\ UNCHANGED <<player, now, completed, audioLog, resampler>>
  /\ Capture("granted")

\* startCapture(): the catch block for the k-th call
deniedRefs(r, k) == [r EXCEPT !.micPermission = "denied"]

\* startCapture(): getUserMedia rejected; the catch block runs and the call
\* returns false
captureDenied ==
  /\ devices.pending > 0
  /\ LET k == audioLog.starts - devices.pending + 1 IN
     /\ refs' = deniedRefs(refs, k)
     /\ capture' = [Quiet(capture) EXCEPT !.returned = "false",
                                          !.denied = @ \cup {k}]
  /\ devices' = [devices EXCEPT !.pending = @ - 1]
  /\ UNCHANGED <<player, ctx, now, completed, audioLog, resampler>>
  /\ Capture("denied")

sendsAudioNever(c, k) == FALSE

\* onaudioprocess of the k-th startCapture call: isConnected && sendAudio
sendsAudio(c, k) == c.closure[k]

\* processor.onaudioprocess of the k-th startCapture call: the processor is
\* connected and its context runs.  isConnected is the value the closure of
\* that call holds, sendAudio is the send of the transport.
audioprocess(k, input) ==
  /\ k \in devices.processors
  /\ refs' = IF loud(input) THEN [refs EXCEPT !.isUserSpeaking = TRUE] ELSE refs
  /\ capture' = [Quiet(capture) EXCEPT
        !.lastSpeakTimeRef = IF loud(input) THEN DateNow ELSE @,
        !.calls = IF loud(input) /\ ~refs.isUserSpeaking THEN <<TRUE>> ELSE <<>>,
        !.block = k,
        !.input = input,
        !.sent = IF sendsAudio(capture, k) THEN frameLength ELSE -1]
  /\ IF sendsAudio(capture, k) THEN sendCall("f32") ELSE Capture("block")
  /\ UNCHANGED <<player, ctx, now, devices, completed, audioLog, resampler>>

\* the checkSilence interval callback
checkSilence ==
  /\ due
  /\ LET silent == /\ expired(DateNow - capture.lastSpeakTimeRef)
                   /\ refs.isUserSpeaking
     IN /\ refs' = IF silent THEN [refs EXCEPT !.isUserSpeaking = FALSE] ELSE refs
        /\ capture' = [Quiet(capture) EXCEPT
                          !.lastCheck = now,
                          !.calls = IF silent THEN <<FALSE>> ELSE <<>>]
  /\ UNCHANGED <<player, ctx, now, devices, completed, audioLog, resampler>>
  /\ Capture("check")

\* stopCapture(); r is the isConnected value the capture effect has handled
\* when it returns
stopCaptureCall(r) ==
  /\ audioLog' = [audioLog EXCEPT !.stopped = TRUE, !.scenario = -1]
  /\ devices' = [devices EXCEPT !.processors = @ \ {refs.processorRef},
                                !.streams = @ \ {refs.streamRef}]
  /\ ctx' = release(closeContext(closeContext(ctx, refs.audioContextRef),
                                      refs.playbackContextRef),
                    player.scheduled)
  /\ refs' = [refs EXCEPT !.processorRef = NoRef, !.sourceRef = NoRef,
                          !.streamRef = NoRef, !.audioContextRef = NoRef,
                          !.playbackContextRef = NoRef,
                          !.isUserSpeaking = FALSE]
  /\ player' = [player EXCEPT !.playbackQueue = <<>>, !.started = <<>>]
  /\ completed' = <<>>
  /\ capture' = [Quiet(capture) EXCEPT !.rendered = r,
                                       !.calls = <<FALSE>>,
                                       !.sinceStop = TRUE]
  /\ UNCHANGED <<now, resampler>>

\* stopCapture()
stopCapture ==
  /\ stopCaptureCall(capture.rendered)
  /\ Capture("stop")

\* the clock advances by one tick, up to the given limit
advance(limit) ==
  /\ now < limit
  /\ now' = now + 1
  /\ ctx' = [c \in Contexts |->
               IF ctx[c].state = "running"
                 THEN [ctx[c] EXCEPT !.currentTime = @ + 1] ELSE ctx[c]]
  /\ capture' = Quiet(capture)
  /\ UNCHANGED <<refs, player, devices, completed, audioLog, resampler>>
  /\ UNCHANGED transportVars

\* the clock advances by one tick
tick == advance(MaxTime)

\* no call of downsample is in progress
NoCall == [length |-> 0, sourceRate |-> 0, targetRate |-> 0, output |-> <<>>]

\* the hook after construction: every ref is null, nothing is queued
AudioIdle ==
  /\ refs = [audioContextRef |-> NoRef, sourceRef |-> NoRef,
             processorRef |-> NoRef, streamRef |-> NoRef,
             playbackContextRef |-> NoRef, micPermission |-> "unknown",
             isUserSpeaking |-> FALSE]
  /\ player = [playbackQueue |-> <<>>, isPlaying |-> FALSE, nextPlayTime |-> 0,
               isAiSpeaking |-> FALSE, scheduled |-> {}, started |-> <<>>,
               lastEnd |-> 0]
  /\ ctx = [c \in Contexts |-> [state |-> "none", currentTime |-> 0]]
  /\ now = 0
  /\ devices = [streams |-> {}, processors |-> {}, pending |-> 0]
  /\ completed = <<>>
  /\ audioLog = [queued |-> 0, starts |-> 0, stopped |-> FALSE, scenario |-> 0]
  /\ capture = [lastSpeakTimeRef |-> 0, lastCheck |-> 0, closure |-> <<>>,
                rendered |-> {}, calls |-> <<>>, returned |-> "none",
                block |-> 0, input |-> <<>>, sent |-> -1, denied |-> {}, sinceStop |-> FALSE, frame |-> -1]

\* the hook after construction, no call of downsample in progress
AudioInit ==
  /\ AudioIdle
  /\ resampler = NoCall

Init == TransportInit /\ AudioInit

TransportSpec == Init /\ [][TransportNext]_vars

\* downsample(input, sourceRate, targetRate): input.length of the inputs, the
\* block of onaudioprocess among them
Lengths == 0..MaxLength \cup {CAPTURE_BUFFER_SIZE}

\* <<sourceRate, targetRate>>: the rate startCapture asks for and other
\* rates of an AudioContext, to CAPTURE_SAMPLE_RATE and to other rates
Rates ==
  { <<sampleRate, CAPTURE_SAMPLE_RATE>>, <<44100, CAPTURE_SAMPLE_RATE>>,
    <<CAPTURE_SAMPLE_RATE, CAPTURE_SAMPLE_RATE>>, <<8000, CAPTURE_SAMPLE_RATE>>,
    <<9000, 7000>>, <<24000, 11025>> }

\* downsample is called on an input of some length at some rates
ResamplerInit ==
  /\ TransportInit
  /\ AudioIdle
  /\ resampler \in {[length |-> length, sourceRate |-> rates[1],
                     targetRate |-> rates[2], output |-> <<>>] :
                       length \in Lengths, rates \in Rates}

\* downsample(input, sourceRate, targetRate) returns its output
downsampleReturns ==
  /\ resampler.output = <<>>
  /\ resampler' = [resampler EXCEPT !.output =
        <<downsample(resampler.length, resampler.sourceRate,
                     resampler.targetRate)>>]
  /\ UNCHANGED <<refs, player, ctx, now, devices, completed, audioLog, capture>>
  /\ UNCHANGED transportVars

ResamplerSpec == ResamplerInit /\ [][downsampleReturns]_vars

\* the playback scheduler with the clock and teardown; capture is started
\* when the transport connects, so it is either not started or already
\* granted (first stream, first AudioContext) when the first frame arrives
PlaybackNext ==
  \/ \E byteLength \in ByteLengths : playAudioChunk(byteLength)
  \/ \E source \in player.scheduled : sourceEnded(source)
  \/ stopCapture
  \/ tick

CaptureActive ==
  /\ refs = [audioContextRef |-> 1, sourceRef |-> 1, processorRef |-> 1,
             streamRef |-> 1, playbackContextRef |-> NoRef,
             micPermission |-> "granted", isUserSpeaking |-> FALSE]
  /\ player = [playbackQueue |-> <<>>, isPlaying |-> FALSE, nextPlayTime |-> 0,
               isAiSpeaking |-> FALSE, scheduled |-> {}, started |-> <<>>,
               lastEnd |-> 0]
  /\ ctx = [c \in Contexts |->
              IF c = 1 THEN [state |-> "running", currentTime |-> 0]
                       ELSE [state |-> "none", currentTime |-> 0]]
  /\ now = 0
  /\ devices = [streams |-> {1}, processors |-> {1}, pending |-> 0]
  /\ completed = <<>>
  /\ audioLog = [queued |-> 0, starts |-> 1, stopped |-> FALSE, scenario |-> 0]
  /\ capture = [lastSpeakTimeRef |-> 0, lastCheck |-> 0, closure |-> <<TRUE>>,
                rendered |-> {TRUE}, calls |-> <<>>, returned |-> "none",
                block |-> 0, input |-> <<>>, sent |-> -1, denied |-> {}, sinceStop |-> FALSE, frame |-> -1]
  /\ resampler = NoCall

PlaybackInit == TransportInit /\ (AudioInit \/ CaptureActive)

PlaybackSpec == PlaybackInit /\ [][PlaybackNext]_vars

\* ------------------------------------------------------ the Personaplex page

\* useEffect(() => { if (isConnected) startCapture(); else stopCapture(); },
\* [isConnected, startCapture, stopCapture]): runs after the mount and after
\* every render in which isConnected has changed
captureEffect ==
  /\ isConnected \notin capture.rendered
  /\ IF isConnected THEN startCaptureCall({TRUE}) /\ Capture("start")
                    ELSE stopCaptureCall({FALSE}) /\ Capture("stop")

\* the page is mounted: its capture effect has run
mounted == capture.rendered # {}

\* handleConnect: connect()
handleConnect ==
  /\ mounted
  /\ channels < MaxSessions
  /\ connect

\* handleDisconnect: stopCapture(); disconnect()
handleDisconnect ==
  /\ mounted
  /\ stopCaptureCall(capture.rendered)
  /\ disconnectCall

\* a session: the transport, capture driven by it, and the captured blocks
SessionNext ==
  \/ handleConnect
  \/ handleDisconnect
  \/ captureEffect
  \/ captureGranted
  \/ captureDenied
  \/ \E k \in 1..MaxStarts, input \in SessionInputs : audioprocess(k, input)
  \/ \E ws \in Channels : channelOpen(ws)
  \/ \E ws \in Channels : peerClose(ws)
  \/ \E ws \in Channels : channelClosed(ws)

SessionSpec == Init /\ [][SessionNext]_vars

\* handleMessage(data), the onMessage of the socket: a binary frame of
\* byteLength bytes received from the open socket is passed to playAudioChunk
handleMessage(byteLength) ==
  /\ socketIsOpen(hook, readyState)
  /\ playAudioChunkCall(byteLength)
  /\ capture' = [Quiet(capture) EXCEPT !.frame = byteLength]
  /\ Capture("message")

\* a session in progress: the page was mounted, handleConnect was called,
\* the socket opened, the capture effect called startCapture and
\* getUserMedia resolved
SessionActive ==
  /\ hook = [HookInit EXCEPT !.socketRef = 1, !.status = "connected"]
  /\ readyState = [ws \in Channels |-> IF ws = 1 THEN "OPEN" ELSE "NONE"]
  /\ failing = {}
  /\ wire = NoWrite
  /\ lastOp = "granted"
  /\ sinceDisconnect = FALSE
  /\ run = [len |-> 0, notified |-> 0, connected |-> FALSE]
  /\ caused = [ws \in Channels |-> 0]
  /\ refs = [audioContextRef |-> 1, sourceRef |-> 1, processorRef |-> 1,
             streamRef |-> 1, playbackContextRef |-> NoRef,
             micPermission |-> "granted", isUserSpeaking |-> FALSE]
  /\ player = [playbackQueue |-> <<>>, isPlaying |-> FALSE, nextPlayTime |-> 0,
               isAiSpeaking |-> FALSE, scheduled |-> {}, started |-> <<>>,
               lastEnd |-> 0]
  /\ ctx = [c \in Contexts |->
              IF c = 1 THEN [state |-> "running", currentTime |-> 0]
                       ELSE [state |-> "none", currentTime |-> 0]]
  /\ now = 0
  /\ devices = [streams |-> {1}, processors |-> {1}, pending |-> 0]
  /\ completed = <<>>
  /\ audioLog = [queued |-> 0, starts |-> 1, stopped |-> TRUE, scenario |-> -1]
  /\ capture = [lastSpeakTimeRef |-> 0, lastCheck |-> 0, closure |-> <<TRUE>>,
                rendered |-> {TRUE}, calls |-> <<>>, returned |-> "true",
                block |-> 0, input |-> <<>>, sent |-> -1, denied |-> {},
                sinceStop |-> FALSE, frame |-> -1]
  /\ resampler = NoCall

\* the clock advances by one tick once the interval callback due at the
\* current time has run
vadTick ==
  /\ ~due
  /\ advance(MaxClock)

\* voice activity during a session: blocks, the checkSilence interval and the
\* clock, until the page stops capture
VadNext ==
  \/ \E k \in 1..MaxStarts, input \in Inputs : audioprocess(k, input)
  \/ checkSilence
  \/ vadTick
  \/ handleDisconnect
  \/ captureEffect

VadSpec == SessionActive /\ [][VadNext]_vars

\* inbound frames during a session: each is decoded and played
CodecNext ==
  \/ \E byteLength \in ByteLengths : handleMessage(byteLength)
  \/ \E source \in player.scheduled : sourceEnded(source)
  \/ tick

CodecSpec == SessionActive /\ [][CodecNext]_vars

\* ------------------------------------------------------ Transport properties

Quiescent == \A ws \in Channels : readyState[ws] \notin {"CONNECTING", "CLOSING"}

\* C1: send() in any state other than Connected returns false, writes no bytes
\* to any socket and changes no transport state.
C1_SendRejectedUnlessConnected ==
  [][(lastOp' = "send" /\ ~isConnected) =>
       /\ wire'.result = FALSE
       /\ wire'.socket = NoSocket
       /\ hook'.socketRef = hook.socketRef
       /\ hook'.status = hook.status
       /\ hook'.errorMessage = hook.errorMessage
       /\ readyState' = readyState]_vars

\* send() was rejected while Connecting, although an earlier socket of this
\* transport is OPEN
C1_Witness ==
  /\ lastOp = "send"
  /\ hook.status = "connecting"
  /\ wire.result = FALSE
  /\ \E ws \in Channels : readyState[ws] = "OPEN"

\* C2: whenever the state is Connected, send() writes the bytes to the open
\* socket and returns true.
C2_SendAcceptedWhenConnected ==
  (lastOp = "send" /\ isConnected) =>
     /\ wire.result = TRUE
     /\ wire.socket # NoSocket

\* C3: each disconnect() call causes exactly one onDisconnect notification,
\* counting its own and the one of the close event of the socket it closed.
C3_OneNotificationPerDisconnect ==
  /\ lastOp = "disconnect" => hook.onDisconnect = 1
  /\ \A ws \in Channels :
        (caused[ws] > 0 /\ readyState[ws] = "CLOSED") => caused[ws] = 1

\* C4: two disconnect() calls in a row on a connected transport notify
\* onDisconnect once in total and leave the state Disconnected.
C4_DoubleDisconnectNotifiesOnce ==
  (run.len = 2 /\ run.connected) =>
     /\ run.notified = 1
     /\ hook.status = "disconnected"

\* C5: after disconnect() and until the next connect() call the state stays
\* Disconnected and no error message is set, whatever events earlier sockets
\* deliver.
C5_DisconnectedUntilConnect ==
  sinceDisconnect =>
     /\ hook.status = "disconnected"
     /\ hook.errorMessage = NoMessage

\* C6: when opening the socket fails, the transport ends in Error with a
\* message once the error and close events of the failed socket are delivered.
C6_OpenFailureEndsInError ==
  lastOp = "openFailed" =>
     /\ hook.status = "error"
     /\ hook.errorMessage # NoMessage

\* C7: a close coming from the peer while Connected leaves the state
\* Disconnected, clears the socket reference so that send() returns false, and
\* notifies onDisconnect exactly once.
C7_PeerCloseDisconnects ==
  [][(lastOp' = "peerClose" /\ isConnected) =>
       /\ hook'.status = "disconnected"
       /\ hook'.socketRef = NoSocket
       /\ ~sendAllowed(hook', readyState')
       /\ hook'.onDisconnect = 1]_vars

\* the peer closed the connection that socketRef referred to
C7_Witness ==
  /\ lastOp = "peerClose"
  /\ hook.onDisconnect = 1
  /\ hook.status = "disconnected"
  /\ hook.socketRef = NoSocket
  /\ \A ws \in Channels : readyState[ws] \in {"NONE", "CLOSED"}

\* C8: after disconnect(), once all pending socket events are delivered, no
\* socket of this transport is connecting or open and no frame is delivered.
C8_NoSocketOpenAfterDisconnect ==
  (sinceDisconnect /\ Quiescent) =>
     /\ \A ws \in Channels : readyState[ws] # "OPEN"
     /\ lastOp # "message"

\* ------------------------------------------------------- Playback properties

\* C9: at most one buffer is scheduled and not yet completed; every buffer is
\* started no earlier than the clock time at which it is scheduled and no
\* earlier than the end (start + duration) of the buffer scheduled before it.
C9_NoOverlap ==
  /\ [](Cardinality(player.scheduled) <= 1)
  /\ [][\A source \in player'.scheduled \ player.scheduled :
          /\ source.start >= ctx'[source.ctx].currentTime
          /\ source.start >= player.lastEnd]_vars

\* the third buffer is scheduled after two completions
C9_Witness ==
  /\ Len(player.started) = 3
  /\ Len(completed) = 2
  /\ Cardinality(player.scheduled) = 1

RECURSIVE ScenarioStart(_)
\* the end of the buffers of Scenario before the i-th
ScenarioStart(i) ==
  IF i = 1 THEN 0 ELSE ScenarioStart(i - 1) + Scenario[i - 1]

\* C10: without teardown, buffers are started and completed in the order they
\* were queued, none skipped or played twice; the buffers of Scenario, queued
\* back to back and completed on time, play one right after the other and
\* span the sum of their durations.
C10_EnqueueOrder ==
  ~audioLog.stopped =>
     /\ player.started = [i \in 1..Len(player.started) |-> i]
     /\ completed = [i \in 1..Len(completed) |-> i]
     /\ Len(player.started) - Len(completed) = Cardinality(player.scheduled)
     /\ \A source \in player.scheduled : source.id = Len(player.started)
     /\ \A i \in 1..Len(player.playbackQueue) :
           player.playbackQueue[i].id = Len(player.started) + i
     /\ Len(player.started) + Len(player.playbackQueue) = audioLog.queued
     /\ audioLog.scenario >= 0 =>
           /\ \A source \in player.scheduled :
                 /\ source.start = ScenarioStart(source.id)
                 /\ source.duration = Scenario[source.id]
           /\ (audioLog.scenario = Len(Scenario) /\ Len(completed) = Len(Scenario))
                 => player.nextPlayTime = ScenarioStart(Len(Scenario) + 1)

\* the three buffers of Scenario have completed, 7 ticks (0.35 s) after the
\* first one started
C10_Witness ==
  /\ audioLog.scenario = 3
  /\ completed = <<1, 2, 3>>
  /\ player.nextPlayTime = 7
  /\ ~player.isPlaying

\* -------------------------------------------------------- Capture properties

\* C11: a startCapture() call that fails because microphone access is denied
\* returns false, sets micPermission to "denied" and leaves capture inactive
\* with no resource held: no stream, no AudioContext, no source or processor
\* node; no block is ever processed for the denied call.
C11_DeniedStartHoldsNothing ==
  /\ lastOp = "denied" =>
        /\ capture.returned = "false"
        /\ refs.micPermission = "denied"
        /\ refs.streamRef = NoRef
        /\ refs.audioContextRef = NoRef
        /\ refs.sourceRef = NoRef
        /\ refs.processorRef = NoRef
        /\ devices.streams = {}
        /\ devices.processors = {}
  /\ capture.block \notin capture.denied
  /\ capture.denied \cap (devices.streams \cup devices.processors) = {}

\* C12: after stopCapture() and until the next startCapture() the stream,
\* source and processor are released, the user is not speaking and the
\* checkSilence timer is cancelled (its callback does not run); every
\* stopCapture() call, also when capture is not active or right after
\* another one, leaves these same values.
C12_StopReleasesAndCancelsTimer ==
  capture.sinceStop =>
     /\ refs.streamRef = NoRef
     /\ refs.sourceRef = NoRef
     /\ refs.processorRef = NoRef
     /\ refs.audioContextRef = NoRef
     /\ devices.streams = {}
     /\ devices.processors = {}
     /\ ~refs.isUserSpeaking
     /\ lastOp # "check"

\* C13: while capture runs, a block with RMS above 0.01 processed while the
\* user is silent sets the user speaking with exactly one notification (true);
\* a checkSilence callback that runs while the user is speaking and more than
\* 300 ms after the last loud block sets the user silent with one notification
\* (false); and, unless stopCapture() is called, the user never becomes
\* silent when 300 ms or less have passed since the last loud block.
C13_SpeakingFollowsLoudBlocksAndTimeout ==
  [][/\ (capture'.block # 0 /\ loud(capture'.input) /\ ~refs.isUserSpeaking)
          => /\ refs'.isUserSpeaking
             /\ capture'.calls = <<TRUE>>
             /\ capture'.lastSpeakTimeRef = DateNow
     /\ (capture'.lastCheck # capture.lastCheck /\ refs.isUserSpeaking
            /\ DateNow - capture.lastSpeakTimeRef > 300)
          => /\ ~refs'.isUserSpeaking
             /\ capture'.calls = <<FALSE>>
     /\ (refs.isUserSpeaking /\ ~refs'.isUserSpeaking
            /\ lastOp' \notin {"stop", "disconnect"})
          => /\ capture'.lastCheck # capture.lastCheck
             /\ DateNow - capture.lastSpeakTimeRef > 300]_vars

\* the user was set silent by the first callback that ran more than 300 ms
\* after the last loud block
C13_SilentAfterTimeout ==
  /\ lastOp = "check"
  /\ capture.calls = <<FALSE>>
  /\ ~refs.isUserSpeaking
  /\ ~capture.sinceStop
  /\ capture.lastCheck = now
  /\ DateNow - capture.lastSpeakTimeRef \in {350, 400}

\* C14: a block processed while the status is "connected" is downsampled to
\* 682 samples and passed to send() in that same step, once; the frame is
\* written to the socket in that step when send() accepts it, and when send()
\* rejects it nothing is written and nothing of it is kept; no step that
\* processes no block writes a frame, so a rejected frame is never written
\* later.
C14_BlocksSentOnceOrDropped ==
  [][/\ (capture'.block # 0 /\ isConnected)
          => /\ capture'.sent = 682
             /\ lastOp' = "send"
     /\ (capture'.block # 0 /\ capture'.sent # -1)
          => /\ wire' = IF socketIsOpen(hook, readyState)
                          THEN [result |-> TRUE, socket |-> hook.socketRef,
                                data |-> "f32"]
                          ELSE NoWrite
             /\ hook' = Fresh(hook)
             /\ UNCHANGED <<readyState, failing, player, devices, audioLog>>
     /\ capture'.block = 0 => wire' = NoWrite]_vars

\* a block was processed while connected and its frame was written
C14_FrameWritten ==
  /\ isConnected
  /\ capture.block # 0
  /\ capture.sent = 682
  /\ lastOp = "send"
  /\ wire = [result |-> TRUE, socket |-> hook.socketRef, data |-> "f32"]

\* ------------------------------------------------------ Frame properties

C17_NothingCapturedAfterStop ==
  capture.sinceStop =>
     /\ devices.streams = {}
     /\ devices.processors = {}
     /\ refs.streamRef = NoRef /\ refs.processorRef = NoRef
     /\ refs.sourceRef = NoRef /\ refs.audioContextRef = NoRef
     /\ capture.block = 0
     /\ capture.sent = -1
     /\ capture.calls \in {<<>>, <<FALSE>>}

\* C18: at every instant at most one capture instance is active (one live
\* stream, one connected processor), whatever the sequence of status changes,
\* and the refs hold the live instance: no startCapture() call overwrites the
\* refs of an instance that is still live.
C18_OneCaptureInstance ==
  /\ Cardinality(devices.streams) <= 1
  /\ Cardinality(devices.processors) <= 1
  /\ devices.streams \subseteq {refs.streamRef}
  /\ devices.processors \subseteq {refs.processorRef}

\* ---------------------------------------------------- Teardown properties

\* C19: onended of a source that was scheduled before stopCapture() and
\* fires after it (its context is closed) does nothing: it starts no buffer,
\* creates no source on the closed context, and leaves the playback queue,
\* nextPlayTime and isPlaying as they are.
C19_StaleCompletionIsNoOp ==
  [][\A source \in player.scheduled :
        (/\ ctx[source.ctx].state = "closed"
         /\ source \notin player'.scheduled
         /\ completed' = Append(completed, source.id))
        => /\ player'.scheduled = player.scheduled \ {source}
           /\ player'.started = player.started
           /\ player'.playbackQueue = player.playbackQueue
           /\ player'.nextPlayTime = player.nextPlayTime
           /\ player'.isPlaying = player.isPlaying]_vars

\* C20: stopCapture() leaves isPlaying false, also when a buffer was playing,
\* and a buffer that playAudioChunk queues while the queue is empty and no
\* source is scheduled on a context that is not closed is started in that
\* same step, so the first buffer after a teardown does not wait for onended
\* of a source of the session before.
C20_FirstBufferStartsAtOnce ==
  [][/\ (lastOp' = "stop" /\ capture'.calls = <<FALSE>>) => ~player'.isPlaying
     /\ (/\ audioLog'.queued = audioLog.queued + 1
         /\ player.playbackQueue = <<>>
         /\ \A source \in player.scheduled : ctx[source.ctx].state = "closed")
        => \E source \in player'.scheduled \ player.scheduled :
              source.id = audioLog'.queued]_vars

\* -------------------------------------------------- Resampler properties

====
